---- MODULE Spec2Model ----
(***************************************************************************)
(* Two-step analysis/processing job pipeline of the invoice processor:     *)
(* the AnalysisJob state machine, the per-job scratch files and their      *)
(* cleanup sweeps, the stored Anthropic credential, the vault key and its  *)
(* rotation, and the lazy loading of the local (Florence) model.           *)
(***************************************************************************)
EXTENDS Integers, Sequences, FiniteSets, TLC

\* ------------------------------------------------------------ constants

JOB_EXPIRATION_SECONDS == 3600
KEY_ROTATION_DAYS == 30
OCR_LOW_CONFIDENCE_THRESHOLD == 80

\* Bounds of the model (not program constants).
MaxTime == 3601
MaxLocked == 1
MaxKeyAge == 31
MaxKeyVersion == 2
MaxInsertDelay == 1
MaxWords == 4

Ids == {"j1", "j2"}
Workers == {"w1", "w2"}
FileTypes == {"original", "page", "preprocessed"}
Pipelines == {"florence", "claude"}
Preferences == {"auto", "local"}
\* The scratch files the environment may make undeletable.
LockableTypes == {"original"}
\* Threadpool threads that use the local extractor.
Threads == {"t1", "t2"}

VARIABLES
    now,            \* datetime.utcnow(), in seconds
    jobs,           \* analysis_jobs table: job id -> row ("none": no row)
    files,          \* files present in settings.TEMP_DIR
    locked,         \* files whose deletion raises (os.remove fails)
    pc,             \* position of each process_job call
    call,           \* arguments of each process_job call in flight
    ret,            \* what the last step returned: the outcome of process_job or
                    \* store_api_key, the kind of counts a cleanup call reports
                    \* ("none" after any other step)
    nextInvoiceId,  \* next autoincrement id of invoices
    nextDocumentId, \* next autoincrement id of other_documents
    apiKey,         \* api_keys row of provider 'anthropic'
    envKey,         \* ANTHROPIC_API_KEY of the environment passes has_valid_claude_api_key
    keyFile,        \* version of the key stored in encryption.key
    settingsKey,    \* settings.API_KEY_ENCRYPTION_KEY (in memory)
    keyAge,         \* days since encryption.meta.json created_at
    metaVersion,    \* encryption.meta.json version
    florenceRef,    \* model_manager._florence_service (0: None)
    instModel,      \* per FlorenceService instance constructed: self.model is not None
    loadCount,      \* completed AutoModelForCausalLM.from_pretrained calls
    loadLock,       \* holder of FlorenceService._load_lock ("free" if none)
    tpc,            \* position of each thread using the local extractor, and of
                    \* the main thread ("startup" until lifespan has run)
    tinst,          \* instance each thread calls into (0: none)
    unloadedInference, \* some thread ran _run_inference with self.model None
    inferenceLock,  \* holder of each inference lock ("free" if none); lock 0 is
                    \* the class attribute FlorenceService._inference_lock
    inferenceRaised, \* some _run_inference call raised
    ocrWords,       \* 'conf' of each word of ocr_data['words'] of the page analyzed
    quality,        \* quality_analysis of that page
    scored,         \* what _calculate_confidence_score returned for them
    lineValues,     \* quantity, unit_price, total_ht read from one line of the
                    \* page, in hundredths (0: None or zero)
    lineItem,       \* the line item the local extractor emitted for them
    response,       \* the text the remote model answered with
    parsed          \* what _parse_response made of it

jobVars == <<now, jobs, files, locked, pc, call, ret, nextInvoiceId, nextDocumentId>>
keyVars == <<apiKey, envKey, keyFile, settingsKey, keyAge, metaVersion>>
loadVars == <<florenceRef, instModel, loadCount, loadLock, tpc, tinst,
              unloadedInference, inferenceLock, inferenceRaised>>
scoreVars == <<ocrWords, quality, scored>>
itemVars == <<lineValues, lineItem>>
parseVars == <<response, parsed>>
vars == <<jobVars, keyVars, loadVars, scoreVars, itemVars, parseVars>>

\* ------------------------------------------------------------ AnalysisJob

NoJob == [status |-> "none", created_at |-> 0, expires_at |-> 0,
          suggested_pipeline |-> "none",
          result_invoice_id |-> 0, result_document_id |-> 0,
          processing_method |-> "none", processing_error |-> FALSE]

\* A row removed by db.delete(job).
DeletedJob == [NoJob EXCEPT !.status = "deleted"]

Exists(j) == jobs[j].status \notin {"none", "deleted"}

Terminal == {"completed", "failed", "expired"}

\* AnalysisJob.is_expired
is_expired_late(job, t) == t > job.expires_at + 1
is_expired(job, t) == t > job.expires_at

\* AnalysisJob.set_expiration
set_expiration_from_zero(job, t, seconds) == [job EXCEPT !.expires_at = seconds]
set_expiration(job, t, seconds) == [job EXCEPT !.expires_at = t + seconds]

mark_processing(job) == [job EXCEPT !.status = "processing"]

mark_completed(job, invoice_id, document_id, method) ==
    [job EXCEPT !.status = "completed",
                !.result_invoice_id = invoice_id,
                !.result_document_id = document_id,
                !.processing_method = method]

mark_failed(job) == [job EXCEPT !.status = "failed", !.processing_error = TRUE]

mark_expired(job) == [job EXCEPT !.status = "expired"]

\* ------------------------------------------------------------ file names

\* A name is a sequence of atoms; "_", "-" and "." are atoms of their own.
\* A job id is a UUID: five groups of 8-4-4-4-12 characters joined by "-".
IdAtoms(j) == <<j, "-", "xxxx", "-", "xxxx", "-", "xxxx", "-", "xxxxxxxxxxxx">>

AtomLen(a) ==
    CASE a \in Ids -> 8
      [] a = "xxxx" -> 4
      [] a = "xxxxxxxxxxxx" -> 12
      [] a = "original" -> 8
      [] a = "preprocessed" -> 12
      [] a = "page" -> 4
      [] a = "png" -> 3
      [] a = "pdf" -> 3
      [] OTHER -> 1

RECURSIVE StrLen(_)
StrLen(s) == IF s = <<>> THEN 0 ELSE AtomLen(Head(s)) + StrLen(Tail(s))

\* str.split(sep)
RECURSIVE Split(_, _)
Split(s, sep) ==
    IF \A i \in 1..Len(s) : s[i] # sep
    THEN <<s>>
    ELSE LET k == CHOOSE i \in 1..Len(s) :
                      s[i] = sep /\ \A m \in 1..(i - 1) : s[m] # sep
         IN  <<SubSeq(s, 1, k - 1)>> \o Split(SubSeq(s, k + 1, Len(s)), sep)

\* sep.join(parts)
RECURSIVE Join(_, _)
Join(parts, sep) ==
    IF parts = <<>> THEN <<>>
    ELSE IF Len(parts) = 1 THEN parts[1]
    ELSE parts[1] \o <<sep>> \o Join(Tail(parts), sep)

Take(s, n) == SubSeq(s, 1, IF Len(s) < n THEN Len(s) ELSE n)

\* CleanupService.get_job_file_path; a file is [job, type], page 0 only.
get_job_file_path(job_id, file_type) ==
    CASE file_type = "original" -> job_id \o <<"_", "original", ".", "pdf">>
      [] file_type = "preprocessed" -> job_id \o <<"_", "preprocessed", ".", "png">>
      [] file_type = "page" -> job_id \o <<"_", "page", "_", "0", ".", "png">>

FileRecs == [job : Ids, type : FileTypes]
FileName(f) == get_job_file_path(IdAtoms(f.job), f.type)

\* glob.glob on a file name: "*" in the pattern stands for any run of
\* characters, every other atom for itself.
RECURSIVE fnmatch(_, _)
fnmatch(name, pat) ==
    IF pat = <<>> THEN name = <<>>
    ELSE IF Head(pat) = "*"
         THEN \/ fnmatch(name, Tail(pat))
              \/ name # <<>> /\ fnmatch(Tail(name), pat)
    ELSE /\ name # <<>>
         /\ Head(name) = Head(pat)
         /\ fnmatch(Tail(name), Tail(pat))

\* CleanupService.get_all_job_files: glob "{job_id}_*"
get_all_job_files(job_id, fs) ==
    {f \in fs : fnmatch(FileName(f), job_id \o <<"_", "*">>)}

\* CleanupService.cleanup_job_files: every matching file is attempted; a file
\* whose removal raises stays and is reported in errors.
cleanup_job_files_stop_at_failure(job_id, fs, lk) ==
    LET found == get_all_job_files(job_id, fs)
    IN  IF found \cap lk # {}
        THEN [files |-> fs, files_deleted |-> 0, errors |-> found \cap lk]
        ELSE [files |-> fs \ found,
              files_deleted |-> Cardinality(found),
              errors |-> {}]
cleanup_job_files(job_id, fs, lk) ==
    LET found == get_all_job_files(job_id, fs)
    IN  [files |-> fs \ (found \ lk),
         files_deleted |-> Cardinality(found \ lk),
         errors |-> found \cap lk]

FilesOf(j) == {f \in files : f.job = j}

\* ------------------------------------------------------------ credential

MinKeyLen == 10

NoKey == [len |-> 0, prefix |-> FALSE, remote |-> FALSE]
\* The keys a caller may submit: length, starts with 'sk-ant-', accepted by the
\* remote service.
KeyInputs == {[len |-> 10, prefix |-> TRUE, remote |-> TRUE],
              [len |-> 10, prefix |-> TRUE, remote |-> FALSE],
              [len |-> 9, prefix |-> TRUE, remote |-> TRUE],
              [len |-> 10, prefix |-> FALSE, remote |-> TRUE]}

NoApiKey == [present |-> FALSE, key |-> NoKey, encUnder |-> 0, is_valid |-> FALSE]

\* ApiKeyService._decrypt with the Fernet of settings.API_KEY_ENCRYPTION_KEY:
\* a token encrypted under another key raises InvalidToken.
Decryptable(row, k) == row.present /\ row.encUnder = k

\* ApiKeyService._decrypt on the stored token with the Fernet of key k: the
\* plaintext, or NoKey when the token fails authentication (ValueError).
decrypt_any_key(row, k) == row.key
decrypt(row, k) == IF row.encUnder = k THEN row.key ELSE NoKey

\* What ApiKeyService.get_api_key returns (NoKey: None).
get_api_key_plaintext(row, k) == IF ~row.present THEN NoKey ELSE decrypt(row, k)

\* ApiKeyService.get_api_key: None when absent or undecryptable.
get_api_key(row, k) == IF Decryptable(row, k) THEN "key" ELSE "none"

\* ApiKeyService.get_anthropic_key_for_processing. The environment fallback
\* reads settings.ANTHROPIC_API_KEY, which Settings never defines: AttributeError.
get_anthropic_key_for_processing(row, k, env) ==
    IF get_api_key(row, k) = "key" /\ row.is_valid THEN "key"
    ELSE IF env THEN "attribute_error"
    ELSE "none"

\* The call written in _process_with_claude and the parameters that
\* ClaudeVisionService.extract_invoice_data declares.
ClaudeCallKwargs == {"image", "db", "ocr_context"}
ClaudeExtractParams == {"image", "ocr_context"}

\* The remote service, once reached (needs the environment key: _get_client).
RemoteOutcomes(env) ==
    IF ~env THEN {"not_configured"}
    ELSE {"invoice", "other", "auth", "transient"}

\* ProcessingService._process_with_claude: what it hands back to process_job.
\*   requires_api_key / error / invoice / other / raise;
\*   "auth_requires_api_key" also marks the stored key invalid.
process_with_claude(row, k, env) ==
    LET found == get_anthropic_key_for_processing(row, k, env)
    IN  IF found = "attribute_error" THEN {"raise"}
        ELSE IF found = "none" THEN {"requires_api_key"}
        ELSE IF ~(ClaudeCallKwargs \subseteq ClaudeExtractParams)
             THEN {"error"}  \* TypeError, caught by `except Exception`
        ELSE {CASE o = "not_configured" -> "requires_api_key"
                [] o = "auth" -> "auth_requires_api_key"
                [] o = "transient" -> "error"
                [] OTHER -> o : o \in RemoteOutcomes(env)}

\* ProcessingService._process_with_florence
process_with_florence == {"invoice", "other", "error"}

\* ------------------------------------------------------------ job store

\* AnalysisService.get_job_for_processing: the rows after the call and its
\* error ("ok" when the job is returned).
get_job_for_processing_lazy_first(js, j, t) ==
    LET job == js[j]
    IN  IF job.status \in {"none", "deleted"} THEN [jobs |-> js, error |-> "not_found"]
        ELSE IF is_expired(job, t)
             THEN [jobs |-> [js EXCEPT ![j] = mark_expired(job)], error |-> "expired"]
        ELSE IF job.status # "analyzed" THEN [jobs |-> js, error |-> "not_ready"]
        ELSE [jobs |-> js, error |-> "ok"]
get_job_for_processing_retry_failed(js, j, t) ==
    LET job == js[j]
    IN  IF job.status \in {"none", "deleted"} THEN [jobs |-> js, error |-> "not_found"]
        ELSE IF job.status = "completed" THEN [jobs |-> js, error |-> "already_processed"]
        ELSE IF job.status = "expired" THEN [jobs |-> js, error |-> "expired"]
        ELSE IF is_expired(job, t)
             THEN [jobs |-> [js EXCEPT ![j] = mark_expired(job)], error |-> "expired"]
        ELSE IF job.status \notin {"analyzed", "failed"}
             THEN [jobs |-> js, error |-> "not_ready"]
        ELSE [jobs |-> js, error |-> "ok"]
get_job_for_processing(js, j, t) ==
    LET job == js[j]
    IN  IF job.status \in {"none", "deleted"} THEN [jobs |-> js, error |-> "not_found"]
        ELSE IF job.status = "completed" THEN [jobs |-> js, error |-> "already_processed"]
        ELSE IF job.status = "expired" THEN [jobs |-> js, error |-> "expired"]
        ELSE IF job.status = "failed" THEN [jobs |-> js, error |-> "previously_failed"]
        ELSE IF is_expired(job, t)
             THEN [jobs |-> [js EXCEPT ![j] = mark_expired(job)], error |-> "expired"]
        ELSE IF job.status # "analyzed" THEN [jobs |-> js, error |-> "not_ready"]
        ELSE [jobs |-> js, error |-> "ok"]

\* AnalysisService.get_job_images: page 0, else the preprocessed image.
get_job_images(j, fs) ==
    IF [job |-> j, type |-> "page"] \in fs \/ [job |-> j, type |-> "preprocessed"] \in fs
    THEN "ok" ELSE "no_images"

\* The query of cleanup_expired_jobs.
expired_jobs_analyzed_only(js, t) ==
    {j \in Ids : js[j].status = "analyzed" /\ js[j].expires_at < t}
expired_jobs_any_status(js, t) ==
    {j \in Ids : js[j].status \notin {"none", "deleted"} /\ js[j].expires_at < t}
expired_jobs(js, t) ==
    {j \in Ids : js[j].status \in {"analyzed", "processing"} /\ js[j].expires_at < t}

\* The loop `for job in ...: cleanup_job_files(job.id)` over a set of job ids
\* (given as names): the files left and the errors collected.
RECURSIVE cleanup_each(_, _, _)
cleanup_each(job_ids, fs, lk) ==
    IF job_ids = {} THEN [files |-> fs, files_deleted |-> 0, errors |-> {}]
    ELSE LET id == CHOOSE x \in job_ids : TRUE
             one == cleanup_job_files(id, fs, lk)
             rest == cleanup_each(job_ids \ {id}, one.files, lk)
         IN  [files |-> rest.files,
              files_deleted |-> one.files_deleted + rest.files_deleted,
              errors |-> one.errors \cup rest.errors]

\* CleanupService.cleanup_expired_jobs on (rows, files).
cleanup_expired_jobs(js, fs, lk, t) ==
    LET exp == expired_jobs(js, t)
        res == cleanup_each({IdAtoms(j) : j \in exp}, fs, lk)
    IN  [jobs |-> [j \in Ids |-> IF j \in exp THEN mark_expired(js[j]) ELSE js[j]],
         files |-> res.files,
         jobs_cleaned |-> Cardinality(exp),
         files_deleted |-> res.files_deleted,
         errors |-> res.errors]

\* The job id cleanup_orphaned_files reads from a file name (<<>>: none).
extract_job_id(name) ==
    LET parts == Split(name, "_")
    IN  IF Len(parts) >= 5 /\ "-" \in {parts[1][i] : i \in 1..Len(parts[1])}
        THEN Join(Take(Split(parts[1], "-"), 5), "-")
        ELSE <<>>

\* CleanupService.cleanup_orphaned_files on (rows, files).
cleanup_orphaned_files(js, fs, lk) ==
    LET all_files == {f \in fs : "_" \in {FileName(f)[i] : i \in 1..Len(FileName(f))}}
        job_ids_from_files ==
            {id \in {extract_job_id(FileName(f)) : f \in all_files} :
                id # <<>> /\ StrLen(id) = 36}
        existing_job_ids ==
            {IdAtoms(j) : j \in {x \in Ids : js[x].status \notin {"none", "deleted"}}}
              \cap job_ids_from_files
        orphaned_job_ids == job_ids_from_files \ existing_job_ids
    IN  cleanup_each(orphaned_job_ids, fs, lk)

\* CleanupService.force_cleanup on (rows, files).
force_cleanup(js, fs, lk) ==
    LET all_jobs == {j \in Ids : js[j].status \notin {"none", "deleted"}}
        res == cleanup_each({IdAtoms(j) : j \in all_jobs}, fs, lk)
    IN  [jobs |-> [j \in Ids |-> IF j \in all_jobs THEN DeletedJob ELSE js[j]],
         files |-> res.files,
         files_deleted |-> res.files_deleted,
         errors |-> res.errors]

\* ------------------------------------------------------------ process_job

NoCall == [job |-> "none", pipeline |-> "none"]

\* What process_job writes to the job row for an outcome of the pipeline
\* (invoice_id, document_id: the ids _save_to_database returned).
apply_outcome_ignoring_save(job, o, save, invoice_id, document_id, method) ==
    CASE o \in {"requires_api_key", "auth_requires_api_key"} ->
            [job EXCEPT !.status = "analyzed"]
      [] o \in {"error", "raise"} -> mark_failed(job)
      [] o = "invoice" -> mark_completed(job, invoice_id, 0, method)
      [] o = "other" -> mark_completed(job, 0, document_id, method)
apply_outcome_no_revert(job, o, save, invoice_id, document_id, method) ==
    CASE o \in {"requires_api_key", "auth_requires_api_key"} -> job
      [] o \in {"error", "raise"} -> mark_failed(job)
      [] o = "invoice" ->
            IF save THEN mark_completed(job, invoice_id, 0, method)
            ELSE mark_completed(job, 0, 0, method)
      [] o = "other" ->
            IF save THEN mark_completed(job, 0, document_id, method)
            ELSE mark_completed(job, 0, 0, method)
apply_outcome(job, o, save, invoice_id, document_id, method) ==
    CASE o \in {"requires_api_key", "auth_requires_api_key"} ->
            [job EXCEPT !.status = "analyzed"]
      [] o \in {"error", "raise"} -> mark_failed(job)
      [] o = "invoice" ->
            IF save THEN mark_completed(job, invoice_id, 0, method)
            ELSE mark_completed(job, 0, 0, method)
      [] o = "other" ->
            IF save THEN mark_completed(job, 0, document_id, method)
            ELSE mark_completed(job, 0, 0, method)

\* What process_job returns for an outcome of the pipeline.
outcome_return(o) ==
    CASE o \in {"requires_api_key", "auth_requires_api_key"} -> "requires_api_key"
      [] o = "error" -> "pipeline_error"
      [] o = "raise" -> "exception"
      [] OTHER -> "success"

\* db.commit() of a change to the row of job j: an UPDATE of the changed
\* columns. When the row is gone the flush raises StaleDataError.
Commit(j, row) == IF Exists(j) THEN [jobs EXCEPT ![j] = row] ELSE jobs

Quiet == \A w \in Workers : pc[w] = "idle"

\* ------------------------------------------------------------ confidence score

\* Confidences of the words handed to _calculate_confidence_score (OCRService
\* keeps the words of confidence 30 and more; the function takes any number)
\* and the quality analyses of a page.
ConfValues == {-1, 0, 98, 99, 150}
WordLists == UNION {[1..n -> ConfValues] : n \in 0..MaxWords}
Qualities == [is_handwritten : BOOLEAN, blur_score : {10, 50},
              contrast_score : {20, 50}]

NotScored == [score |-> -1, suggested |-> "none"]

RECURSIVE Sum(_)
Sum(xs) == IF xs = <<>> THEN 0 ELSE Head(xs) + Sum(Tail(xs))

RECURSIVE SumSq(_)
SumSq(xs) == IF xs = <<>> THEN 0 ELSE Head(xs) * Head(xs) + SumSq(Tail(xs))

\* [w.get('conf', 0) for w in words if w.get('conf', 0) > 0]
confidences(words) == SelectSeq(words, LAMBDA c : c > 0)

\* statistics.variance(xs) > limit, for Len(xs) > 1 (sample variance).
variance_exceeds(xs, limit) ==
    Len(xs) * SumSq(xs) - Sum(xs) * Sum(xs) > limit * Len(xs) * (Len(xs) - 1)

\* The integers round() may give for num / den: the nearest one; on a
\* decimal tie either neighbour, since the binary float that stands for the
\* quotient lies on one side or the other of the tie.
round_div(num, den) ==
    LET q == num \div den
        r == num % den
    IN  IF 2 * r > den THEN {q + 1}
        ELSE IF 2 * r < den THEN {q}
        ELSE {q, q + 1}

\* round(num / den, 3) in thousandths, for den a multiple of 1000.
round3(num, den) == round_div(num, den \div 1000)

\* The score before clamping, as the fraction num / den: the mean
\* confidence over 100, times 0.8 (variance), 0.5 (handwriting), 0.9 (blur)
\* and 0.9 (contrast) where they apply; den is Len(confs) * 100 * 10^4.
penalized_score(confs, q) ==
    [num |-> Sum(confs)
               * (IF Len(confs) > 1 /\ variance_exceeds(confs, 500) THEN 8 ELSE 10)
               * (IF q.is_handwritten THEN 5 ELSE 10)
               * (IF q.blur_score < 20 THEN 9 ELSE 10)
               * (IF q.contrast_score < 30 THEN 9 ELSE 10),
     den |-> Len(confs) * 100 * 10000]

\* AnalysisService._calculate_confidence_score: the results it may return,
\* each a score in thousandths and the suggested pipeline.
calculate_confidence_score_unclamped(words, q) ==
    LET confs == confidences(words)
        sc == penalized_score(confs, q)
        suggested == IF sc.num * 100 >= OCR_LOW_CONFIDENCE_THRESHOLD * sc.den
                        /\ ~q.is_handwritten
                     THEN "florence" ELSE "claude"
    IN  IF confs = <<>> THEN {[score |-> 0, suggested |-> "claude"]}
        ELSE {[score |-> r, suggested |-> suggested] : r \in round3(sc.num, sc.den)}
calculate_confidence_score(words, q) ==
    LET confs == confidences(words)
        sc == penalized_score(confs, q)
        \* max(0.0, min(1.0, score))
        num == IF sc.num > sc.den THEN sc.den ELSE IF sc.num < 0 THEN 0 ELSE sc.num
        suggested == IF num * 100 >= OCR_LOW_CONFIDENCE_THRESHOLD * sc.den
                        /\ ~q.is_handwritten
                     THEN "florence" ELSE "claude"
    IN  IF confs = <<>> THEN {[score |-> 0, suggested |-> "claude"]}
        ELSE {[score |-> r, suggested |-> suggested] : r \in round3(num, sc.den)}

\* ------------------------------------------------------------ line items

\* Amounts a line of the page may carry, in hundredths.
Amounts == {0, 200, 500, 1000, 5500, 10200}
LineValues == [quantity : Amounts, unit_price : Amounts, total_ht : Amounts]

NoItem == [quantity |-> -1, unit_price |-> -1, total_ht |-> -1]
\* The line was dropped: no item appended.
Dropped == [quantity |-> 0, unit_price |-> 0, total_ht |-> 0]

Abs(x) == IF x < 0 THEN -x ELSE x

\* FlorenceService._extract_line_items_improved, the validation of one line
\* by qty * unit_price = total and the item appended: the items it may
\* emit ({Dropped} when total_ht is missing or not positive). Amounts are
\* hundredths, so qty * unit_price is in ten-thousandths.
validate_line_item(v) ==
    IF v.total_ht <= 0 THEN {Dropped}
    ELSE IF v.quantity # 0 /\ v.unit_price # 0
         THEN IF /\ Abs(v.quantity * v.unit_price - 100 * v.total_ht) > 10000
                 /\ v.quantity > 0
                 /\ Abs(100 * v.total_ht - v.unit_price * v.quantity)
                        > 100 * v.quantity
              THEN {[v EXCEPT !.unit_price = p] :
                        p \in round_div(100 * v.total_ht, v.quantity)}
              ELSE {v}
    ELSE IF v.quantity > 0
         THEN {[v EXCEPT !.unit_price = p] :
                   p \in round_div(100 * v.total_ht, v.quantity)}
    ELSE IF v.unit_price > 0
         THEN UNION {IF 10 * Abs(v.total_ht - n * v.unit_price) < v.unit_price
                     THEN {[v EXCEPT !.quantity = 100 * n]}
                     ELSE {[v EXCEPT !.quantity = q] :
                               q \in round_div(100 * v.total_ht, v.unit_price)}
                     : n \in round_div(v.total_ht, v.unit_price)}
    ELSE {v}

\* ------------------------------------------------------------ cloud response

\* How the answer carries its payload: alone, inside prose, or inside a
\* ```json fence.
Wrappers == {"bare", "prose", "fenced"}
\* What json.loads makes of the payload ("text": not JSON at all).
JsonTypes == {"object", "array", "string", "number", "null", "text"}
CurrencyTexts == {<<>>, <<"e", "u", "r">>, <<"E", "U", "R">>, <<"e", "u", "r", "o">>}
\* mentions: 'is_invoice' is a key of the object, an element of the array,
\* a part of the string. currency <<>>: no such key, or null.
Payloads == [type : JsonTypes, mentions : BOOLEAN, is_invoice : BOOLEAN,
             currency : CurrencyTexts]
Responses == [wrapper : Wrappers, payload : Payloads]

XXX == <<"X", "X", "X">>
NotParsed == [outcome |-> "none", is_invoice |-> FALSE, currency |-> <<>>,
              parse_error |-> FALSE]

upper(c) ==
    CASE c = "e" -> "E"
      [] c = "u" -> "U"
      [] c = "r" -> "R"
      [] c = "o" -> "O"
      [] OTHER -> c

\* The text handed to json.loads: the body of the fence, else the span
\* from the first '{' to the last '}', else the whole response.
json_str(r) ==
    IF r.wrapper = "fenced" THEN r.payload
    ELSE IF r.payload.type = "object" THEN r.payload
    ELSE IF r.wrapper = "bare" THEN r.payload
    ELSE [r.payload EXCEPT !.type = "text"]

\* ClaudeVisionService._parse_response
parse_response(r) ==
    LET data == json_str(r) IN
    IF data.type = "text"
    THEN [outcome |-> "record", is_invoice |-> TRUE, currency |-> XXX,
          parse_error |-> TRUE]
    ELSE IF data.type \in {"number", "null"}
    THEN [NotParsed EXCEPT !.outcome = "TypeError"]
    ELSE IF ~data.mentions /\ data.type # "object"
    THEN [NotParsed EXCEPT !.outcome = "TypeError"]
    ELSE IF data.type # "object"
    THEN [NotParsed EXCEPT !.outcome = "AttributeError"]
    ELSE LET currency == IF data.currency = <<>> THEN XXX ELSE data.currency
         IN  [outcome |-> "record",
              is_invoice |-> IF data.mentions THEN data.is_invoice ELSE TRUE,
              currency |-> IF Len(currency) = 3
                           THEN [i \in 1..3 |-> upper(currency[i])]
                           ELSE XXX,
              parse_error |-> FALSE]

\* ------------------------------------------------------------ initial state

InitProgram ==
    /\ now = 0
    /\ jobs = [j \in Ids |-> NoJob]
    /\ files = {}
    /\ locked = {}
    /\ pc = [w \in Workers |-> "idle"]
    /\ call = [w \in Workers |-> NoCall]
    /\ ret = "none"
    /\ nextInvoiceId = 1
    /\ nextDocumentId = 1
    /\ apiKey = NoApiKey
    /\ envKey \in BOOLEAN
    /\ keyFile = 1
    /\ settingsKey = 1
    /\ keyAge = 0
    /\ metaVersion = 1
    /\ florenceRef = 0
    /\ instModel = <<>>
    /\ loadCount = 0
    /\ loadLock = "free"
    /\ tpc = [t \in Threads \cup {"main"} |-> IF t = "main" THEN "startup" ELSE "idle"]
    /\ tinst = [t \in Threads |-> 0]
    /\ unloadedInference = FALSE
    /\ inferenceLock = [l \in 0..Cardinality(Threads) |-> "free"]
    /\ inferenceRaised = FALSE

\* No page scored, no line read yet.
InitUnscored ==
    /\ ocrWords = <<>>
    /\ quality = [is_handwritten |-> FALSE, blur_score |-> 50, contrast_score |-> 50]
    /\ scored = NotScored

InitNoLine ==
    /\ lineValues = Dropped
    /\ lineItem = NoItem

InitNoResponse ==
    /\ response = [wrapper |-> "bare",
                   payload |-> [type |-> "text", mentions |-> FALSE,
                                is_invoice |-> FALSE, currency |-> <<>>]]
    /\ parsed = NotParsed

\* No page analyzed yet.
Init ==
    /\ InitProgram
    /\ InitUnscored
    /\ InitNoLine
    /\ InitNoResponse

\* analyze_document has the OCR result and the quality analysis of a page in
\* hand and is about to score them.
InitScore ==
    /\ InitProgram
    /\ ocrWords \in WordLists
    /\ quality \in Qualities
    /\ scored = NotScored
    /\ InitNoLine
    /\ InitNoResponse

\* The local extractor has read the numbers of one line of the page.
InitItems ==
    /\ InitProgram
    /\ InitUnscored
    /\ lineValues \in LineValues
    /\ lineItem = NoItem
    /\ InitNoResponse

\* The remote model has answered.
InitParse ==
    /\ InitProgram
    /\ InitUnscored
    /\ InitNoLine
    /\ response \in Responses
    /\ parsed = NotParsed

\* ------------------------------------------------------------ actions: jobs

\* The instants at which the clock is read: the first seconds, and the
\* seconds from one TTL after the start on.
Instants == {t \in 0..MaxTime : t <= 1 \/ t >= JOB_EXPIRATION_SECONDS}

\* Wall-clock time passes until the next call reads the clock.
Tick ==
    \E t \in Instants :
        /\ t > now
        /\ now' = t
        /\ ret' = "none"
        /\ UNCHANGED <<jobs, files, locked, pc, call, nextInvoiceId,
                       nextDocumentId, keyVars, loadVars, scoreVars, itemVars, parseVars>>

\* AnalysisService.analyze_document succeeding: the three scratch files of a
\* fresh uuid4, then the row, with the pipeline the quality analysis suggests.
\* set_expiration reads the clock; created_at is the column default, a second
\* reading of the clock made when the INSERT is flushed at db.commit(). Only
\* jobs whose deadline falls within the horizon MaxTime are created.
AnalyzeDocument(j, suggested, inserted) ==
    /\ jobs[j].status = "none"
    /\ FilesOf(j) = {}
    /\ now + JOB_EXPIRATION_SECONDS <= MaxTime
    /\ inserted \in Instants
    /\ now <= inserted
    /\ inserted - now <= MaxInsertDelay
    /\ files' = files \cup {[job |-> j, type |-> ty] : ty \in FileTypes}
    /\ now' = inserted
    /\ jobs' = [jobs EXCEPT ![j] =
                  set_expiration([NoJob EXCEPT !.status = "analyzed",
                                               !.created_at = inserted,
                                               !.suggested_pipeline = suggested],
                                 now, JOB_EXPIRATION_SECONDS)]
    /\ ret' = "none"
    /\ UNCHANGED <<locked, pc, call, nextInvoiceId, nextDocumentId,
                   keyVars, loadVars, scoreVars, itemVars, parseVars>>

\* analyze_document raising after the original was copied: its handler runs
\* cleanup_job_files and re-raises; a file that cannot be removed stays, and
\* no row is written.
AnalyzeDocumentFails(j) ==
    /\ jobs[j].status = "none"
    /\ FilesOf(j) = {}
    /\ Cardinality(locked) < MaxLocked
    /\ LET orig == [job |-> j, type |-> "original"]
       IN  /\ files' = cleanup_job_files(IdAtoms(j), files \cup {orig},
                                         locked \cup {orig}).files
           /\ locked' = locked \cup {orig}
    /\ ret' = "none"
    /\ UNCHANGED <<now, jobs, pc, call, nextInvoiceId, nextDocumentId,
                   keyVars, loadVars, scoreVars, itemVars, parseVars>>

\* The environment makes a scratch file undeletable, or deletable again.
LockFile(f) ==
    /\ f \in files \ locked
    /\ f.type \in LockableTypes
    /\ Cardinality(locked) < MaxLocked
    /\ locked' = locked \cup {f}
    /\ ret' = "none"
    /\ UNCHANGED <<now, jobs, files, pc, call, nextInvoiceId,
                   nextDocumentId, keyVars, loadVars, scoreVars, itemVars, parseVars>>

UnlockFile(f) ==
    /\ f \in locked
    /\ locked' = locked \ {f}
    /\ ret' = "none"
    /\ UNCHANGED <<now, jobs, files, pc, call, nextInvoiceId,
                   nextDocumentId, keyVars, loadVars, scoreVars, itemVars, parseVars>>

\* process_job, first part: get_job_for_processing and the check of the
\* user's preference. On an error it returns; else the call goes on.
ProcessJobBeginSerialized(w, j, pipeline, pref) ==
    /\ pc[w] = "idle"
    /\ LET r == get_job_for_processing(jobs, j, now)
       IN  /\ jobs' = r.jobs
           /\ IF r.error # "ok"
              THEN /\ ret' = r.error
                   /\ UNCHANGED <<pc, call>>
              ELSE IF \E v \in Workers \ {w} : call[v].job = j
              THEN /\ ret' = "not_ready"
                   /\ UNCHANGED <<pc, call>>
              ELSE IF pref = "local" /\ pipeline = "claude"
              THEN /\ ret' = "requires_confirmation"
                   /\ UNCHANGED <<pc, call>>
              ELSE /\ pc' = [pc EXCEPT ![w] = "got"]
                   /\ call' = [call EXCEPT ![w] = [job |-> j, pipeline |-> pipeline]]
                   /\ ret' = "none"
    /\ UNCHANGED <<now, files, locked, nextInvoiceId, nextDocumentId,
                   keyVars, loadVars, scoreVars, itemVars, parseVars>>
ProcessJobBegin(w, j, pipeline, pref) ==
    /\ pc[w] = "idle"
    /\ LET r == get_job_for_processing(jobs, j, now)
       IN  /\ jobs' = r.jobs
           /\ IF r.error # "ok"
              THEN /\ ret' = r.error
                   /\ UNCHANGED <<pc, call>>
              ELSE IF pref = "local" /\ pipeline = "claude"
              THEN /\ ret' = "requires_confirmation"
                   /\ UNCHANGED <<pc, call>>
              ELSE /\ pc' = [pc EXCEPT ![w] = "got"]
                   /\ call' = [call EXCEPT ![w] = [job |-> j, pipeline |-> pipeline]]
                   /\ ret' = "none"
    /\ UNCHANGED <<now, files, locked, nextInvoiceId, nextDocumentId,
                   keyVars, loadVars, scoreVars, itemVars, parseVars>>

\* process_job: job.mark_processing(); db.commit()
MarkProcessing(w) ==
    /\ pc[w] = "got"
    /\ LET j == call[w].job
       IN  IF Exists(j)
           THEN /\ jobs' = Commit(j, mark_processing(jobs[j]))
                /\ pc' = [pc EXCEPT ![w] = "processing"]
                /\ UNCHANGED <<call, ret>>
           ELSE /\ pc' = [pc EXCEPT ![w] = "idle"]
                /\ call' = [call EXCEPT ![w] = NoCall]
                /\ ret' = "exception"
                /\ UNCHANGED jobs
    /\ UNCHANGED <<now, files, locked, nextInvoiceId, nextDocumentId,
                   keyVars, loadVars, scoreVars, itemVars, parseVars>>

\* process_job, the try block: load the images, run the pipeline, save,
\* write the job's final state and return. save_to_db is an argument of the
\* call that nothing reads before this step.
RunPipeline(w, save) ==
    /\ pc[w] = "processing"
    /\ LET j == call[w].job
           p == call[w].pipeline
       IN  IF get_job_images(j, files) = "no_images"
           THEN /\ jobs' = Commit(j, mark_failed(jobs[j]))
                /\ ret' = IF Exists(j) THEN "load_error" ELSE "exception"
                /\ UNCHANGED <<nextInvoiceId, nextDocumentId, apiKey>>
           ELSE \E o \in (IF p = "claude"
                          THEN process_with_claude(apiKey, settingsKey, envKey)
                          ELSE process_with_florence) :
                /\ jobs' = Commit(j, apply_outcome(jobs[j], o, save, nextInvoiceId,
                                                   nextDocumentId, p))
                /\ ret' = IF Exists(j) THEN outcome_return(o) ELSE "exception"
                /\ nextInvoiceId' =
                       IF o = "invoice" /\ save THEN nextInvoiceId + 1 ELSE nextInvoiceId
                /\ nextDocumentId' =
                       IF o = "other" /\ save THEN nextDocumentId + 1 ELSE nextDocumentId
                /\ apiKey' = IF o = "auth_requires_api_key" /\ apiKey.present
                             THEN [apiKey EXCEPT !.is_valid = FALSE] ELSE apiKey
    /\ pc' = [pc EXCEPT ![w] = "idle"]
    /\ call' = [call EXCEPT ![w] = NoCall]
    /\ UNCHANGED <<now, files, locked, envKey, keyFile, settingsKey, keyAge,
                   metaVersion, loadVars, scoreVars, itemVars, parseVars>>

\* ProcessingService.get_job_status (GET /jobs/{id}/status): reads only.
GetJobStatus(j) ==
    /\ ret' = "none"
    /\ UNCHANGED <<now, jobs, files, locked, pc, call, nextInvoiceId,
                   nextDocumentId, keyVars, loadVars, scoreVars, itemVars, parseVars>>

\* The job_id a caller may put in the path of DELETE /jobs/{job_id}: any
\* string; here the ids of the jobs and "*".
RequestIds == {IdAtoms(j) : j \in Ids} \cup {<<"*">>}

\* DELETE /jobs/{job_id}: cleanup_job_files(job_id)
CleanupJob(job_id) ==
    /\ files' = cleanup_job_files(job_id, files, locked).files
    /\ ret' = "job_files_stats"
    /\ UNCHANGED <<now, jobs, locked, pc, call, nextInvoiceId, nextDocumentId,
                   keyVars, loadVars, scoreVars, itemVars, parseVars>>

\* CleanupService.cleanup_expired_jobs (the expiry sweep)
CleanupExpiredJobs ==
    /\ LET r == cleanup_expired_jobs(jobs, files, locked, now)
       IN  /\ jobs' = r.jobs
           /\ files' = r.files
    /\ ret' = "expired_stats"
    /\ UNCHANGED <<now, locked, pc, call, nextInvoiceId, nextDocumentId,
                   keyVars, loadVars, scoreVars, itemVars, parseVars>>

\* CleanupService.cleanup_orphaned_files
CleanupOrphanedFiles ==
    /\ files' = cleanup_orphaned_files(jobs, files, locked).files
    /\ ret' = "orphan_stats"
    /\ UNCHANGED <<now, jobs, locked, pc, call, nextInvoiceId, nextDocumentId,
                   keyVars, loadVars, scoreVars, itemVars, parseVars>>

\* CleanupService.full_cleanup (POST /cleanup and startup): the expiry sweep,
\* then the orphan sweep.
FullCleanup ==
    /\ LET r == cleanup_expired_jobs(jobs, files, locked, now)
       IN  /\ jobs' = r.jobs
           /\ files' = cleanup_orphaned_files(r.jobs, r.files, locked).files
    /\ ret' = "full_stats"
    /\ UNCHANGED <<now, locked, pc, call, nextInvoiceId, nextDocumentId,
                   keyVars, loadVars, scoreVars, itemVars, parseVars>>

\* CleanupService.force_cleanup (POST /cleanup-force)
ForceCleanup ==
    /\ LET r == force_cleanup(jobs, files, locked)
       IN  /\ jobs' = r.jobs
           /\ files' = r.files
    /\ ret' = "force_stats"
    /\ UNCHANGED <<now, locked, pc, call, nextInvoiceId, nextDocumentId,
                   keyVars, loadVars, scoreVars, itemVars, parseVars>>

\* ------------------------------------------------------------ actions: credential

\* ApiKeyService._validate_anthropic_key: what the minimal remote call can do
\* for a key, and whether the key then counts as valid.
ValidationOutcomes(key) ==
    IF key.remote THEN {"ok", "api_error", "exception"}
    ELSE {"auth", "api_error", "exception"}

validation_valid(vo) == vo \in {"ok", "api_error"}

\* ApiKeyService.store_api_key up to its db.commit(): the row and success.
store_api_key_no_format_check(row, key, k) ==
    [row |-> [present |-> TRUE, key |-> key, encUnder |-> k, is_valid |-> TRUE],
     success |-> TRUE]
store_api_key(row, key, k) ==
    IF key.len < MinKeyLen THEN [row |-> row, success |-> FALSE]
    ELSE IF ~key.prefix THEN [row |-> row, success |-> FALSE]
    ELSE [row |-> [present |-> TRUE, key |-> key, encUnder |-> k, is_valid |-> TRUE],
          success |-> TRUE]

\* ApiKeyService.validate_api_key: the row after update_validation.
validate_api_key(row, k, vo) ==
    IF get_api_key(row, k) = "none" THEN row
    ELSE [row EXCEPT !.is_valid = validation_valid(vo)]

\* POST /api-keys
StoreApiKey(key, validate) ==
    /\ LET r == store_api_key(apiKey, key, settingsKey)
       IN  IF ~r.success
           THEN /\ apiKey' = r.row
                /\ ret' = "store_rejected"
           ELSE /\ ret' = "stored"
                /\ IF validate
                   THEN \E vo \in ValidationOutcomes(key) :
                            apiKey' = validate_api_key(r.row, settingsKey, vo)
                   ELSE apiKey' = r.row
    /\ UNCHANGED <<now, jobs, files, locked, pc, call, nextInvoiceId, nextDocumentId,
                   envKey, keyFile, settingsKey, keyAge, metaVersion, loadVars, scoreVars, itemVars, parseVars>>

\* POST /api-keys/anthropic/validate
ValidateApiKey ==
    /\ apiKey.present
    /\ \E vo \in ValidationOutcomes(apiKey.key) :
           apiKey' = validate_api_key(apiKey, settingsKey, vo)
    /\ ret' = "none"
    /\ UNCHANGED <<now, jobs, files, locked, pc, call, nextInvoiceId, nextDocumentId,
                   envKey, keyFile, settingsKey, keyAge, metaVersion, loadVars, scoreVars, itemVars, parseVars>>

\* DELETE /api-keys/anthropic
DeleteApiKey ==
    /\ apiKey.present
    /\ apiKey' = NoApiKey
    /\ ret' = "none"
    /\ UNCHANGED <<now, jobs, files, locked, pc, call, nextInvoiceId, nextDocumentId,
                   envKey, keyFile, settingsKey, keyAge, metaVersion, loadVars, scoreVars, itemVars, parseVars>>

\* ------------------------------------------------------------ actions: vault key

\* A day passes since encryption.meta.json was written.
VaultDay ==
    /\ keyAge < MaxKeyAge
    /\ keyAge' = keyAge + 1
    /\ UNCHANGED <<jobVars, apiKey, envKey, keyFile, settingsKey, metaVersion, loadVars, scoreVars, itemVars, parseVars>>

\* Settings._key_needs_rotation
key_needs_rotation(age) == age > KEY_ROTATION_DAYS

\* config.check_and_rotate_encryption_key: when the key is due, the key file
\* is overwritten with a new key, the metadata restarted and the settings
\* instance updated; the pair (old, new) goes back to the caller.
CheckAndRotateEncryptionKey ==
    /\ keyFile < MaxKeyVersion
    /\ IF key_needs_rotation(keyAge)
       THEN /\ keyFile' = keyFile + 1
            /\ settingsKey' = keyFile + 1
            /\ keyAge' = 0
            /\ metaVersion' = metaVersion + 1
       ELSE UNCHANGED <<keyFile, settingsKey, keyAge, metaVersion>>
    /\ UNCHANGED <<jobVars, apiKey, envKey, loadVars, scoreVars, itemVars, parseVars>>

\* The rotation step of lifespan at a (re)start: Settings() reads the key
\* file; api_key_service.check_and_perform_key_rotation does not exist, the
\* AttributeError is caught by `except Exception` and logged.
LifespanKeyRotation ==
    /\ settingsKey' = keyFile
    /\ UNCHANGED <<jobVars, apiKey, envKey, keyFile, keyAge, metaVersion, loadVars, scoreVars, itemVars, parseVars>>

\* ------------------------------------------------------------ actions: local model

\* model_manager.initialize_models in lifespan, before any request is served:
\* get_florence_service() in the main thread, its exception swallowed.
InitializeModels ==
    /\ tpc["main"] = "startup"
    /\ \E outcome \in {"loaded", "load_failed", "ctor_failed"} :
          CASE outcome = "loaded" ->
                  /\ instModel' = Append(instModel, TRUE)
                  /\ florenceRef' = Len(instModel) + 1
                  /\ loadCount' = loadCount + 1
            [] outcome = "load_failed" ->
                  /\ instModel' = Append(instModel, FALSE)
                  /\ florenceRef' = Len(instModel) + 1
                  /\ UNCHANGED loadCount
            [] outcome = "ctor_failed" ->
                  UNCHANGED <<instModel, florenceRef, loadCount>>
    /\ tpc' = [tpc EXCEPT !["main"] = "serving"]
    /\ UNCHANGED <<jobVars, keyVars, scoreVars, itemVars, parseVars, loadLock, tinst, unloadedInference,
                   inferenceLock, inferenceRaised>>

\* get_florence_service, line 31: `if _florence_service is None`
GetFlorenceService(t) ==
    /\ tpc["main"] = "serving"
    /\ tpc[t] = "idle"
    /\ tpc' = [tpc EXCEPT ![t] = IF florenceRef = 0 THEN "construct" ELSE "return"]
    /\ UNCHANGED <<jobVars, keyVars, scoreVars, itemVars, parseVars, florenceRef, instModel, loadCount,
                   loadLock,
                   tinst, unloadedInference, inferenceLock, inferenceRaised>>

\* line 32: `_florence_service = FlorenceService()`; the constructor may raise
\* (os.makedirs), and the call then ends with the exception.
ConstructService(t) ==
    /\ tpc[t] = "construct"
    /\ \/ /\ instModel' = Append(instModel, FALSE)
          /\ florenceRef' = Len(instModel) + 1
          /\ tpc' = [tpc EXCEPT ![t] = "call_load"]
       \/ /\ tpc' = [tpc EXCEPT ![t] = "idle"]
          /\ UNCHANGED <<instModel, florenceRef>>
    /\ UNCHANGED <<jobVars, keyVars, scoreVars, itemVars, parseVars, loadCount, loadLock, tinst,
                   unloadedInference, inferenceLock, inferenceRaised>>

\* FlorenceService.load_model, line 57: `if self.model is not None: return`.
\* site "g": called at line 33 of get_florence_service on the global as it is
\* now; site "e": called by extract_invoice_data on the thread's own instance.
LoadModelCheck(t, site) ==
    /\ tpc[t] = (IF site = "g" THEN "call_load" ELSE "ready")
    /\ LET self == IF site = "g" THEN florenceRef ELSE tinst[t]
       IN  /\ tinst' = [tinst EXCEPT ![t] = self]
           /\ tpc' = [tpc EXCEPT ![t] =
                        IF instModel[self]
                        THEN (IF site = "g" THEN "return" ELSE "infer")
                        ELSE (IF site = "g" THEN "g_acquire" ELSE "e_acquire")]
    /\ UNCHANGED <<jobVars, keyVars, scoreVars, itemVars, parseVars, florenceRef, instModel, loadCount,
                   loadLock,
                   unloadedInference, inferenceLock, inferenceRaised>>

\* line 60: `with self._load_lock:` (one lock for the class)
AcquireLoadLock(t, site) ==
    /\ tpc[t] = (IF site = "g" THEN "g_acquire" ELSE "e_acquire")
    /\ loadLock = "free"
    /\ loadLock' = t
    /\ tpc' = [tpc EXCEPT ![t] = IF site = "g" THEN "g_locked" ELSE "e_locked"]
    /\ UNCHANGED <<jobVars, keyVars, scoreVars, itemVars, parseVars, florenceRef, instModel, loadCount, tinst,
                   unloadedInference, inferenceLock, inferenceRaised>>

\* lines 61-79: `if self.model is None:` load it (from_pretrained may raise);
\* the lock is released on the way out.
LoadUnderLock(t, site) ==
    /\ tpc[t] = (IF site = "g" THEN "g_locked" ELSE "e_locked")
    /\ loadLock' = "free"
    /\ LET after == IF site = "g" THEN "return" ELSE "infer"
       IN  IF instModel[tinst[t]]
           THEN /\ tpc' = [tpc EXCEPT ![t] = after]
                /\ UNCHANGED <<instModel, loadCount, tinst>>
           ELSE \/ /\ instModel' = [instModel EXCEPT ![tinst[t]] = TRUE]
                   /\ loadCount' = loadCount + 1
                   /\ tpc' = [tpc EXCEPT ![t] = after]
                   /\ UNCHANGED tinst
                \/ /\ tpc' = [tpc EXCEPT ![t] = "idle"]
                   /\ tinst' = [tinst EXCEPT ![t] = 0]
                   /\ UNCHANGED <<instModel, loadCount>>
    /\ UNCHANGED <<jobVars, keyVars, scoreVars, itemVars, parseVars, florenceRef, unloadedInference,
                   inferenceLock, inferenceRaised>>

\* line 34: `return _florence_service`, kept as self.florence_service.
ReturnService(t) ==
    /\ tpc[t] = "return"
    /\ tinst' = [tinst EXCEPT ![t] = florenceRef]
    /\ tpc' = [tpc EXCEPT ![t] = "ready"]
    /\ UNCHANGED <<jobVars, keyVars, scoreVars, itemVars, parseVars, florenceRef, instModel, loadCount,
                   loadLock,
                   unloadedInference, inferenceLock, inferenceRaised>>

\* The lock that `with self._inference_lock` takes for an instance: the
\* attribute is set once in the class body, so every instance shares lock 0.
inference_lock_per_instance(self) == self
inference_lock(self) == 0

\* extract_invoice_data, line 112: `with self._inference_lock:`
AcquireInferenceLock(t) ==
    /\ tpc[t] = "infer"
    /\ inferenceLock[inference_lock(tinst[t])] = "free"
    /\ inferenceLock' = [inferenceLock EXCEPT ![inference_lock(tinst[t])] = t]
    /\ tpc' = [tpc EXCEPT ![t] = "inferring"]
    /\ UNCHANGED <<jobVars, keyVars, scoreVars, itemVars, parseVars, florenceRef, instModel, loadCount,
                   loadLock,
                   tinst, unloadedInference, inferenceRaised>>

\* lines 113-118: FlorenceService._run_inference on the thread's instance
\* returns or raises; leaving the `with` block releases the lock either way,
\* and the call ends.
RunInference(t) ==
    /\ tpc[t] = "inferring"
    /\ unloadedInference' = (unloadedInference \/ ~instModel[tinst[t]])
    /\ \E raised \in BOOLEAN : inferenceRaised' = (inferenceRaised \/ raised)
    /\ inferenceLock' = [inferenceLock EXCEPT ![inference_lock(tinst[t])] = "free"]
    /\ tpc' = [tpc EXCEPT ![t] = "idle"]
    /\ tinst' = [tinst EXCEPT ![t] = 0]
    /\ UNCHANGED <<jobVars, keyVars, scoreVars, itemVars, parseVars, florenceRef, instModel, loadCount,
                   loadLock>>

\* ------------------------------------------------------------ actions: confidence score

\* analyze_document, lines 115-118: _calculate_confidence_score
CalculateConfidenceScore ==
    /\ scored = NotScored
    /\ scored' \in calculate_confidence_score(ocrWords, quality)
    /\ UNCHANGED <<jobVars, keyVars, loadVars, ocrWords, quality, itemVars, parseVars>>

\* ------------------------------------------------------------ actions: line items

\* _extract_line_items_improved, lines 773-803, for one line of the page
ValidateLineItem ==
    /\ lineItem = NoItem
    /\ lineItem' \in validate_line_item(lineValues)
    /\ UNCHANGED <<jobVars, keyVars, loadVars, scoreVars, lineValues, parseVars>>

\* ------------------------------------------------------------ actions: cloud response

\* ClaudeVisionService.extract_invoice_data, line 241
ParseResponse ==
    /\ parsed = NotParsed
    /\ parsed' = parse_response(response)
    /\ UNCHANGED <<jobVars, keyVars, loadVars, scoreVars, itemVars, response>>

\* ------------------------------------------------------------ specifications

\* Requests served as the program serves them: process_job calls run in the
\* threadpool and interleave with each other and with every other request.
\* POST /process passes no user_preference ("auto"); the documents are
\* those routed to the local pipeline, which is the one requested here, and
\* their rows are inserted within the second they were analyzed in; the
\* cloud pipeline and later inserts are exercised in SpecSeq and SpecKey.
Next ==
    \/ Tick
    \/ \E j \in Ids : AnalyzeDocument(j, "florence", now)
    \/ \E w \in Workers, j \in Ids : ProcessJobBegin(w, j, "florence", "auto")
    \/ \E w \in Workers : MarkProcessing(w)
    \/ \E w \in Workers, s \in BOOLEAN : RunPipeline(w, s)
    \/ \E j \in Ids : GetJobStatus(j)
    \/ CleanupExpiredJobs
    \/ ForceCleanup

Spec == Init /\ [][Next]_vars

\* The one worker that serves every call when calls do not overlap.
SeqWorkers == {"w1"}

\* Non-overlapping calls: a request starts only when no process_job call is
\* in flight; between the steps of a call only the clock moves.
NextSeq ==
    \/ Tick
    \/ \E j \in Ids, s \in Pipelines, t \in Instants : Quiet /\ AnalyzeDocument(j, s, t)
    \/ \E w \in SeqWorkers, j \in Ids, p \in Pipelines, pref \in Preferences :
           Quiet /\ ProcessJobBegin(w, j, p, pref)
    \/ \E w \in SeqWorkers : MarkProcessing(w)
    \/ \E w \in SeqWorkers, s \in BOOLEAN : RunPipeline(w, s)
    \/ \E j \in Ids : Quiet /\ GetJobStatus(j)
    \/ \E j \in Ids : Quiet /\ CleanupJob(IdAtoms(j))
    \/ Quiet /\ CleanupExpiredJobs
    \/ Quiet /\ ForceCleanup

SpecSeq == Init /\ [][NextSeq]_vars

\* The life of a job when time advances and the sweep keeps being run: the
\* clock moves on while it can, and a sweep that has something to expire
\* is eventually run. Nothing obliges a process_job call to go on: a call
\* may be abandoned at any step. Jobs are created while the clock can still
\* pass their deadline.
LiveIds == {"j1"}

NextLive ==
    \/ Tick
    \/ \E j \in LiveIds, s \in Pipelines :
           /\ now + JOB_EXPIRATION_SECONDS < MaxTime
           /\ AnalyzeDocument(j, s, now)
    \/ \E w \in SeqWorkers, j \in LiveIds, p \in Pipelines :
           ProcessJobBegin(w, j, p, "auto")
    \/ \E w \in SeqWorkers : MarkProcessing(w)
    \/ \E w \in SeqWorkers, s \in BOOLEAN : RunPipeline(w, s)
    \/ CleanupExpiredJobs
    \/ ForceCleanup

SpecLive ==
    /\ Init
    /\ [][NextLive]_vars
    /\ WF_vars(Tick)
    /\ WF_vars(CleanupExpiredJobs)

\* The cloud pipeline and the stored credential, calls not overlapping.
NextKey ==
    \/ Tick
    \/ \E j \in Ids, s \in Pipelines, t \in Instants : Quiet /\ AnalyzeDocument(j, s, t)
    \/ \E w \in SeqWorkers, j \in Ids, pref \in Preferences :
           Quiet /\ ProcessJobBegin(w, j, "claude", pref)
    \/ \E w \in SeqWorkers : MarkProcessing(w)
    \/ \E w \in SeqWorkers, s \in BOOLEAN : RunPipeline(w, s)
    \/ \E key \in KeyInputs, v \in BOOLEAN : Quiet /\ StoreApiKey(key, v)
    \/ Quiet /\ ValidateApiKey
    \/ Quiet /\ DeleteApiKey

SpecKey == Init /\ [][NextKey]_vars

\* Scratch files and job rows under failing deletions, with the sweeps that
\* reconcile them.
NextFiles ==
    \/ Tick
    \/ \E j \in Ids, s \in Pipelines : AnalyzeDocument(j, s, now)
    \/ \E j \in Ids : AnalyzeDocumentFails(j)
    \/ \E f \in FileRecs : LockFile(f)
    \/ \E f \in FileRecs : UnlockFile(f)
    \/ \E job_id \in RequestIds : CleanupJob(job_id)
    \/ CleanupExpiredJobs
    \/ CleanupOrphanedFiles
    \/ FullCleanup
    \/ ForceCleanup

SpecFiles == Init /\ [][NextFiles]_vars

\* The vault key and the stored credential.
NextVault ==
    \/ VaultDay
    \/ CheckAndRotateEncryptionKey
    \/ LifespanKeyRotation
    \/ \E key \in KeyInputs, v \in BOOLEAN : StoreApiKey(key, v)
    \/ ValidateApiKey
    \/ DeleteApiKey

SpecVault == Init /\ [][NextVault]_vars

\* Startup, then threads racing to use the local extractor.
NextLoad ==
    \/ InitializeModels
    \/ \E t \in Threads : GetFlorenceService(t)
    \/ \E t \in Threads : ConstructService(t)
    \/ \E t \in Threads, site \in {"g", "e"} : LoadModelCheck(t, site)
    \/ \E t \in Threads, site \in {"g", "e"} : AcquireLoadLock(t, site)
    \/ \E t \in Threads, site \in {"g", "e"} : LoadUnderLock(t, site)
    \/ \E t \in Threads : ReturnService(t)
    \/ \E t \in Threads : AcquireInferenceLock(t)
    \/ \E t \in Threads : RunInference(t)

SpecLoad == Init /\ [][NextLoad]_vars

\* The scoring of an analyzed page, for each OCR result and quality analysis
\* analyze_document may have in hand.
NextScore ==
    \/ CalculateConfidenceScore

SpecScore == InitScore /\ [][NextScore]_vars

\* The validation of the lines the local extractor reads.
NextItems ==
    \/ ValidateLineItem

SpecItems == InitItems /\ [][NextItems]_vars

\* The parsing of the remote model's answers.
NextParse ==
    \/ ParseResponse

SpecParse == InitParse /\ [][NextParse]_vars

\* ------------------------------------------------------------ properties

\* C1: terminal states are absorbing. Under non-overlapping calls, once a
\* job's status is completed, failed or expired no step changes it; the only
\* end of such a row is force_cleanup, which deletes every row.
C1_TerminalAbsorbing ==
    [][\A j \in Ids :
          jobs[j].status \in Terminal =>
              \/ jobs'[j].status = jobs[j].status
              \/ \A k \in Ids : jobs'[k].status \in {"none", "deleted"}]_vars

\* A completed job, past its deadline, on which process_job has just been
\* called and refused.
C1_Witness ==
    /\ ret = "already_processed"
    /\ \E j \in Ids : jobs[j].status = "completed" /\ now > jobs[j].expires_at

\* C2: in every reachable state, a job that carries a result reference
\* (result_invoice_id or result_document_id) is in status completed.
C2_ResultOnlyWhenCompleted ==
    \A j \in Ids :
        (jobs[j].result_invoice_id # 0 \/ jobs[j].result_document_id # 0)
            => jobs[j].status = "completed"

\* C3: process_job never takes a job on when its deadline has passed at the
\* time of the call. A call goes on past get_job_for_processing only when
\* now <= expires_at, a job becomes processing only through such a call, and
\* a call on an analyzed job past its deadline marks it expired, returns the
\* expiry error and ends there (no extraction).
C3_NoProcessingPastDeadline ==
    [][/\ \A w \in Workers :
             (pc[w] = "idle" /\ pc'[w] = "got") =>
                 /\ now <= jobs[call'[w].job].expires_at
                 /\ jobs[call'[w].job].status = "analyzed"
       /\ \A j \in Ids :
             (jobs[j].status # "processing" /\ jobs'[j].status = "processing") =>
                 \E w \in Workers : pc[w] = "got" /\ call[w].job = j
       /\ \A w \in Workers, j \in Ids :
             ( /\ \E p \in Pipelines, pref \in Preferences : ProcessJobBegin(w, j, p, pref)
               /\ jobs[j].status = "analyzed"
               /\ now > jobs[j].expires_at )
             => /\ jobs'[j].status = "expired"
                /\ ret' = "expired"
                /\ pc'[w] = "idle"
                /\ call'[w] = NoCall]_vars

\* A job that a process_job call found past its deadline: marked expired,
\* the expiry error returned, its scratch files still there.
C3_Witness ==
    /\ ret = "expired"
    /\ \E j \in Ids :
          /\ jobs[j].status = "expired"
          /\ now > jobs[j].expires_at
          /\ FilesOf(j) # {}

\* C4: when process_job runs the cloud pipeline and the credential is
\* missing or is rejected by the remote service, the job ends in analyzed
\* with requires_api_key returned; and a process_job call on an analyzed job
\* before its deadline is accepted.
CredentialUsable == Decryptable(apiKey, settingsKey) /\ apiKey.is_valid
CredentialMissing == ~CredentialUsable /\ ~envKey
CredentialRejected == CredentialUsable /\ ~apiKey.key.remote
C4_KeyFailureRevertsToAnalyzed ==
    [][\A w \in Workers :
          /\ ( /\ \E s \in BOOLEAN : RunPipeline(w, s)
               /\ call[w].pipeline = "claude"
               /\ Exists(call[w].job)
               /\ get_job_images(call[w].job, files) = "ok"
               /\ (CredentialMissing \/ CredentialRejected) )
             => /\ jobs'[call[w].job].status = "analyzed"
                /\ ret' = "requires_api_key"
          /\ \A j \in Ids :
               ( /\ ProcessJobBegin(w, j, "claude", "auto")
                 /\ jobs[j].status = "analyzed"
                 /\ now <= jobs[j].expires_at )
               => pc'[w] = "got"]_vars

C6_ExpiredHasNoFiles ==
    \A j \in Ids : (jobs[j].status = "expired" /\ locked = {}) => FilesOf(j) = {}

\* C7: cleanup_orphaned_files deletes every (deletable) scratch file whose
\* job id has no row, and no file whose job id has a row.
C7_OrphansDeleted ==
    [][CleanupOrphanedFiles =>
          \A f \in files :
             /\ (~Exists(f.job) /\ f \notin locked) => f \notin files'
             /\ Exists(f.job) => f \in files']_vars

\* C8: after force_cleanup, with no deletion failing, no row and no scratch
\* file remains, files of job ids without a row included.
C8_ForceCleanupLeavesNothing ==
    [][(ForceCleanup /\ locked = {}) =>
          /\ files' = {}
          /\ \A j \in Ids : jobs'[j].status \in {"none", "deleted"}]_vars

\* C9: every stored credential is decryptable with the vault key on disk,
\* in every reachable state (a rotation included).
C9_StoredKeyDecryptable ==
    apiKey.present => Decryptable(apiKey, keyFile)

\* C10: however the threads race to the first use of the local extractor,
\* the model is loaded at most once in the process and no inference runs on
\* an instance whose model is not loaded.
C10_LoadedOnce ==
    loadCount <= 1 /\ ~unloadedInference

\* C11: at most one thread is inside _run_inference at any time, whatever
\* instances the threads call into, and an inference lock is held only by a
\* thread that is inside: a call that returned or raised has released it.
C11_InferenceSerialized ==
    /\ Cardinality({t \in Threads : tpc[t] = "inferring"}) <= 1
    /\ \A l \in DOMAIN inferenceLock :
           inferenceLock[l] # "free" => tpc[inferenceLock[l]] = "inferring"

\* An inference has raised, and later one thread is inside _run_inference
\* while the other, on another instance, waits for the lock.
C11_Witness ==
    /\ inferenceRaised
    /\ tpc["t1"] = "inferring"
    /\ tpc["t2"] = "infer"
    /\ tinst["t1"] # tinst["t2"]

\* C12: a request for the local pipeline on a job whose suggested pipeline
\* is the cloud one returns requires_confirmation, starts no extraction and
\* leaves the job analyzed.
C12_DowngradeNeedsConfirmation ==
    [][\A w \in Workers, j \in Ids, pref \in Preferences :
          (/\ ProcessJobBegin(w, j, "florence", pref)
           /\ jobs[j].status = "analyzed"
           /\ ~is_expired(jobs[j], now)
           /\ jobs[j].suggested_pipeline = "claude")
          => (/\ ret' = "requires_confirmation"
              /\ pc'[w] = "idle"
              /\ jobs'[j].status = "analyzed")]_vars

\* The error process_job returns for a job that cannot be processed any more.
RejectionError(status) ==
    CASE status = "completed" -> "already_processed"
      [] status = "failed" -> "previously_failed"
      [] status = "expired" -> "expired"
      [] OTHER -> "not_found"

\* C13: process_job on a job id without a row, or on a completed, failed or
\* expired job, returns the error of that condition, starts no extraction,
\* creates no invoice or other-document record and changes no job row.
C13_RejectedCallChangesNothing ==
    [][\A w \in Workers, j \in Ids, p \in Pipelines, pref \in Preferences :
          (/\ ProcessJobBegin(w, j, p, pref)
           /\ jobs[j].status \in {"none", "deleted"} \cup Terminal)
          => (/\ ret' = RejectionError(jobs[j].status)
              /\ jobs' = jobs
              /\ pc' = pc
              /\ nextInvoiceId' = nextInvoiceId
              /\ nextDocumentId' = nextDocumentId)]_vars

\* A call on a failed job past its deadline was rejected as previously
\* failed, the row still failed.
C13_Witness ==
    /\ ret = "previously_failed"
    /\ \E j \in Ids : jobs[j].status = "failed" /\ is_expired(jobs[j], now)

C15_ResultRefFollowsSave ==
    [][\A w \in Workers, save \in BOOLEAN :
          (/\ RunPipeline(w, save)
           /\ jobs[call[w].job].status = "processing"
           /\ jobs'[call[w].job].status = "completed")
          => LET r == jobs'[call[w].job]
             IN  IF save
                 THEN (r.result_invoice_id # 0) # (r.result_document_id # 0)
                 ELSE r.result_invoice_id = 0 /\ r.result_document_id = 0]_vars

\* A job completed by a call with save_to_db false: no result reference.
C15_Witness ==
    /\ ret = "success"
    /\ \E j \in Ids : /\ jobs[j].status = "completed"
                       /\ jobs[j].result_invoice_id = 0
                       /\ jobs[j].result_document_id = 0
    /\ \E j \in Ids : /\ jobs[j].status = "completed"
                       /\ jobs[j].result_document_id # 0

\* C15 (as stated): every completed job has exactly one of the two
\* references set.
C15_ExactlyOneResultRef ==
    \A j \in Ids :
        jobs[j].status = "completed"
        => (jobs[j].result_invoice_id # 0) # (jobs[j].result_document_id # 0)

\* C16 (as the program behaves): a job created by analyze_document starts
\* analyzed with expires_at equal to the instant set_expiration read the
\* clock plus the TTL; created_at is read no earlier than that instant and
\* stays below expires_at; no later operation changes expires_at.
C16_DeadlineFixedAtCreation ==
    [][/\ \A j \in Ids :
             (jobs[j].status = "none" /\ jobs'[j].status # "none")
             => (/\ jobs'[j].status = "analyzed"
                 /\ jobs'[j].expires_at = now + JOB_EXPIRATION_SECONDS
                 /\ jobs'[j].created_at >= now
                 /\ jobs'[j].expires_at > jobs'[j].created_at)
       /\ \A j \in Ids :
             (Exists(j) /\ jobs'[j].status \notin {"none", "deleted"})
             => (/\ jobs'[j].expires_at = jobs[j].expires_at
                 /\ jobs'[j].created_at = jobs[j].created_at)]_vars

\* A job whose row was inserted after the clock had moved on has been
\* processed to completion.
C16_Witness ==
    \E j \in Ids :
        /\ jobs[j].status = "completed"
        /\ jobs[j].created_at + JOB_EXPIRATION_SECONDS > jobs[j].expires_at
        /\ jobs[j].expires_at > jobs[j].created_at

\* C16 (as stated): expires_at is created_at plus the TTL for every job.
C16_DeadlineIsCreatedPlusTTL ==
    \A j \in Ids :
        Exists(j) => jobs[j].expires_at = jobs[j].created_at + JOB_EXPIRATION_SECONDS

C18_MalformedKeyNotStored ==
    [][\A key \in KeyInputs, validate \in BOOLEAN :
          (StoreApiKey(key, validate) /\ (key.len < MinKeyLen \/ ~key.prefix))
          => (ret' = "store_rejected" /\ apiKey' = apiKey)]_vars

\* A malformed key was rejected while a record marked invalid is stored.
C18_Witness ==
    /\ ret = "store_rejected"
    /\ apiKey.present
    /\ ~apiKey.is_valid

C20_ScoreInUnitRange ==
    scored # NotScored
    => (/\ scored \in calculate_confidence_score(ocrWords, quality)
        /\ scored.score >= 0
        /\ scored.score <= 1000
        /\ (\A i \in 1..Len(ocrWords) : ocrWords[i] <= 0)
           => (scored.score = 0 /\ scored.suggested = "claude"))

\* Words were found, none with a confidence above 0: scored 0, cloud.
C20_Witness ==
    /\ scored = [score |-> 0, suggested |-> "claude"]
    /\ Len(ocrWords) = MaxWords
    /\ \A i \in 1..Len(ocrWords) : ocrWords[i] <= 0

\* C21: the suggested pipeline is the local one exactly when the returned
\* score (rounded, in thousandths) is at or above the threshold and no
\* handwriting was detected.
C21_SuggestionFollowsReturnedScore ==
    scored # NotScored
    => (scored.suggested = "florence"
        <=> (/\ scored.score >= 10 * OCR_LOW_CONFIDENCE_THRESHOLD
             /\ ~quality.is_handwritten))

\* C22: every emitted line item with quantity, unit_price and total all
\* present has quantity * unit_price within 1.0 of the total.
C22_LineItemConsistent ==
    (/\ lineItem # NoItem
     /\ lineItem # Dropped
     /\ lineItem.quantity # 0
     /\ lineItem.unit_price # 0)
    => Abs(lineItem.quantity * lineItem.unit_price - 100 * lineItem.total_ht)
           <= 10000

\* C23: whatever the response text, the cloud extractor's parser returns
\* a record and never raises.
C23_ParserReturnsRecord ==
    parsed # NotParsed => parsed.outcome = "record"

\* C24: two process_job calls on the same analyzed, unexpired job are not
\* serialized. A call that arrives while another call holds the job
\* between get_job_for_processing and its commit of status processing is
\* taken on as well.
C24_SecondCallTakenOn ==
    [][\A w \in Workers, j \in Ids :
          (/\ jobs[j].status = "analyzed"
           /\ ~is_expired(jobs[j], now)
           /\ \E v \in Workers \ {w} : pc[v] = "got" /\ call[v].job = j
           /\ ProcessJobBegin(w, j, "florence", "auto"))
          => (pc'[w] = "got" /\ call'[w].job = j)]_vars

\* Both calls ran extraction and persisted a result record for the one
\* job ever created.
C24_Witness ==
    /\ ret = "success"
    /\ jobs["j1"].status = "completed"
    /\ jobs["j2"].status = "none"
    /\ (nextInvoiceId - 1) + (nextDocumentId - 1) = 2
    /\ Quiet

\* C25: a job that the sweep has marked expired stays expired: an
\* in-flight process_job does not write completed, failed or analyzed
\* over it (the row may only be removed by the forced cleanup).
C25_ExpiredStaysExpired ==
    [][\A j \in Ids :
          jobs[j].status = "expired"
          => jobs'[j].status \in {"expired", "deleted"}]_vars

\* C26: in cleanup_job_files, cleanup_expired_jobs and force_cleanup a file
\* that cannot be deleted is reported in errors and stops nothing: every
\* other file of the jobs concerned is removed, and every job of the batch
\* is marked expired (sweep) or deleted (forced cleanup).
C26_FailedDeletionDoesNotStopBatch ==
    [][/\ \A j \in Ids :
             CleanupJob(IdAtoms(j))
             => /\ files' = files \ (FilesOf(j) \ locked)
                /\ cleanup_job_files(IdAtoms(j), files, locked).errors
                       = FilesOf(j) \cap locked
       /\ CleanupExpiredJobs
             => LET exp == expired_jobs(jobs, now)
                    theirs == {f \in files : f.job \in exp}
                IN  /\ files' = files \ (theirs \ locked)
                    /\ cleanup_expired_jobs(jobs, files, locked, now).errors
                           = theirs \cap locked
                    /\ \A j \in exp : jobs'[j].status = "expired"
       /\ ForceCleanup
             => LET all_jobs == {j \in Ids : Exists(j)}
                    theirs == {f \in files : f.job \in all_jobs}
                IN  /\ files' = files \ (theirs \ locked)
                    /\ force_cleanup(jobs, files, locked).errors
                           = theirs \cap locked
                    /\ \A j \in all_jobs : jobs'[j].status = "deleted"]_vars

\* The sweep has run over two jobs past their deadline: the file of one
\* could not be deleted and is still there, its other files and those of
\* the other job are gone, and both jobs are expired.
C26_Witness ==
    /\ ret = "expired_stats"
    /\ jobs["j1"].status = "expired"
    /\ jobs["j2"].status = "expired"
    /\ \E j \in Ids :
          /\ FilesOf(j) # {}
          /\ FilesOf(j) \subseteq locked
          /\ \A k \in Ids \ {j} : FilesOf(k) = {}

\* C27: process_job with the cloud pipeline sets the stored credential
\* invalid exactly when the remote service rejected it; in every other
\* case the credential record is left as it was.
C27_InvalidatedIffRejected ==
    [][\A w \in Workers :
          (/\ \E s \in BOOLEAN : RunPipeline(w, s)
           /\ call[w].pipeline = "claude"
           /\ Exists(call[w].job)
           /\ get_job_images(call[w].job, files) = "ok")
          => IF CredentialRejected
             THEN apiKey' = [apiKey EXCEPT !.is_valid = FALSE]
             ELSE apiKey' = apiKey]_vars

\* C28: no process_job call leaves the job in status processing when it
\* returns. When a call that has moved its job to processing ends, the
\* job, if its row still exists, is analyzed, failed or completed.
C28_NotLeftProcessing ==
    [][\A w \in Workers :
          (/\ pc[w] = "processing"
           /\ pc'[w] = "idle"
           /\ jobs'[call[w].job].status \notin {"none", "deleted"})
          => jobs'[call[w].job].status \in {"analyzed", "failed", "completed"}]_vars

\* A call that found no credential has returned and its job is analyzed
\* again.
C28_Witness ==
    /\ ret = "requires_api_key"
    /\ Quiet
    /\ \E j \in Ids : jobs[j].status = "analyzed" /\ FilesOf(j) # {}

C30_OnlyOwnFilesDeleted ==
    [][\A job_id \in RequestIds :
          CleanupJob(job_id)
          => /\ \A f \in files \ files' :
                    /\ Len(job_id) + 1 <= Len(FileName(f))
                    /\ SubSeq(FileName(f), 1, Len(job_id) + 1) = job_id \o <<"_">>
             /\ jobs' = jobs]_vars

====
